---- MODULE Spec2Model ----
(***************************************************************************)
(* Model of AI.py, a Streamlit application.  Streamlit re-executes the     *)
(* whole script top to bottom on every user interaction; st.session_state  *)
(* and the widget values survive between executions.  One action of the   *)
(* model is one user interaction followed by the script execution(s) it    *)
(* triggers (st.rerun() starts a second execution inside the same action). *)
(***************************************************************************)
EXTENDS Integers, Sequences, FiniteSets, TLC

VARIABLES
    session_state,  \* st.session_state: key -> value, for the keys present
    radio_id,       \* identity of the stored "Navigate" radio value: the index= it was created with
    radio_val,      \* option held by the "Navigate" radio widget
    sliders,        \* values held by the 8 st.slider widgets (defaults when no value is held)
    total,          \* `total` of the last execution, -1 when the branch did not run
    pct,            \* `pct` of the last execution, -1 when the branch did not run
    error,          \* exception that ended the last execution, "none" when it reached the footer
    download,       \* text of the file the last interaction downloaded, empty when it downloaded none
    last_op,        \* slide operation the last interaction executed, and the index it found
    screen,         \* what the browser displays: the widgets the user can act on
    other,          \* a second user session: its st.session_state and widget values
    lottie          \* the last call of load_lottie_url: its environment and what it returned

vars == <<session_state, radio_id, radio_val, sliders, total, pct, error, download, last_op,
          screen, other, lottie>>

-----------------------------------------------------------------------------
(* Bounds of the model *)

\* the user moves sliders of at most this many axes away from their defaults
MaxChangedAxes == 1

\* the second user clicks only this many options of the radio: the ones up
\* to and including "Showcase Mode"
MaxOtherPages == 2

\* stored page values that are not options of the radio: empty, wrong case,
\* a name without its space
UnknownPages == {"", "overview", "ShowcaseMode"}

-----------------------------------------------------------------------------
(* Content *)

\* options of st.sidebar.radio("Navigate", ...)
PAGES == <<"Overview", "Core Pillars", "Key Activities", "Maturity Diagnostic",
           "Ecosystem Map", "Showcase Mode", "Project List", "Projects Case Studies">>

\* the `slides` list of the Showcase Mode branch, by title
slides == <<"Vision", "The 8 Pillars", "From Idea to Scale", "Maturity in Minutes">>

\* `keys` of the Maturity Diagnostic branch
keys == <<"Strategy", "Governance", "Innovation", "Architecture",
          "Validation", "Delivery", "Enablement", "Ecosystem">>

\* every axis at 2, the fallback of DEFAULT_MATURITY.get(k, 2)
DEFAULT_MATURITY_Fallback ==
    [k \in {keys[i] : i \in 1..Len(keys)} |-> 2]

\* lines 115-124
DEFAULT_MATURITY ==
    [k \in {keys[i] : i \in 1..Len(keys)} |->
        IF k \in {"Strategy", "Innovation", "Delivery"} THEN 3 ELSE 2]

\* st.slider(k, 0, 5, ...)
SliderMin == 0
SliderMax == 5

Range(s) == {s[i] : i \in 1..Len(s)}

\* the options of the radio, as a set
PageSet == Range(PAGES)

\* the 8 axes, as a set
KeySet == Range(keys)


\* list.index(x), 0-based
ListIndex(s, x) == (CHOOSE i \in 1..Len(s) : s[i] = x /\ \A j \in 1..(i-1) : s[j] # x) - 1

\* s[i] with a 0-based Python index
Item(s, i) == s[i + 1]

Max(a, b) == IF a >= b THEN a ELSE b
Min(a, b) == IF a <= b THEN a ELSE b

-----------------------------------------------------------------------------
(* The script, top to bottom *)

EmptySession == [k \in {} |-> 0]

\* InitBlock with another page as the default
InitBlock_OtherDefault(ss) ==
    LET a == IF "_page" \in DOMAIN ss THEN ss ELSE ss @@ ("_page" :> "Core Pillars")
        b == IF "_showcase" \in DOMAIN a THEN a ELSE a @@ ("_showcase" :> FALSE)
    IN  IF "_slide" \in DOMAIN b THEN b ELSE b @@ ("_slide" :> 0)

\* lines 303-308: keys are created only when absent
InitBlock(ss) ==
    LET a == IF "_page" \in DOMAIN ss THEN ss ELSE ss @@ ("_page" :> "Overview")
        b == IF "_showcase" \in DOMAIN a THEN a ELSE a @@ ("_showcase" :> FALSE)
    IN  IF "_slide" \in DOMAIN b THEN b ELSE b @@ ("_slide" :> 0)

\* RadioIndex with `else 1` for an unrecognised page
RadioIndex_Else1(page) == IF page \in PageSet THEN ListIndex(PAGES, page) ELSE 1

\* line 315: index= of the radio
RadioIndex(page) == IF page \in PageSet THEN ListIndex(PAGES, page) ELSE 0

\* lines 312-316: the radio returns the value it holds when it is still the
\* same widget (same index=), else the option at index=
Radio(page, rid, rval) ==
    LET index == RadioIndex(page)
    IN  [id |-> index, nav |-> IF rid = index THEN rval ELSE Item(PAGES, index)]

\* retreat_slide without the max(0, ...)
retreat_slide_NoClamp(idx) == idx - 1

\* lines 563-564
retreat_slide(idx) == Max(0, idx - 1)

\* advance_slide without the min(len(slides)-1, ...)
advance_slide_NoClamp(idx) == idx + 1

\* lines 567-568
advance_slide(idx) == Min(Len(slides) - 1, idx + 1)

\* reset_slide with "_page" in the list of keys to reset; the execution that
\* follows finds 0, which is not an option, and stores the first option
reset_slide_AlsoPage(ss) == [ss EXCEPT !["_slide"] = 0, !["_page"] = "Overview"]

\* reset_slide with another key in the list of keys to reset
reset_slide_OtherKey(ss) == [ss EXCEPT !["_showcase"] = FALSE]

\* line 324
reset_slide(ss) == [ss EXCEPT !["_slide"] = 0]

RECURSIVE SumValues_SkipFirst(_, _)
\* SumValues that starts at the second key
SumValues_SkipFirst(values, n) ==
    IF n <= 1 THEN 0 ELSE SumValues_SkipFirst(values, n - 1) + values[keys[n]]

RECURSIVE SumValues(_, _)
\* line 492: sum(values.values()), over the first n keys
SumValues(values, n) == IF n = 0 THEN 0 ELSE SumValues(values, n - 1) + values[keys[n]]

\* line 493: the double (total / (len(values) * 5)) * 100 lies this side of
\* the exact quotient: IEEE-754 gives 27.500000000000004 for total 11 and
\* 57.49999999999999 for total 23, and the exact value for every other total
\* in 0..40
FloatError(t) == IF t = 11 THEN 1 ELSE IF t = 23 THEN -1 ELSE 0

\* Percentage that divides by the number of axes only
Percentage_PerAxis(t, n) == (t * 100) \div n

\* Percentage kept to two digits
Percentage_TwoDigits(t, n) == ((2 * t * 100 + n * SliderMax) \div (2 * n * SliderMax)) % 100

\* line 493: round() of that double; Python rounds an exact half to even
Percentage(t, n) ==
    LET den == n * SliderMax
        q == (t * 100) \div den
        r == (t * 100) % den
    IN  IF 2 * r < den THEN q
        ELSE IF 2 * r > den THEN q + 1
        ELSE IF FloatError(t) > 0 THEN q + 1
        ELSE IF FloatError(t) < 0 THEN q
        ELSE IF q % 2 = 0 THEN q ELSE q + 1

\* the legend with the Emerging band starting at 30
INTERPRETATION_From30 ==
    <<[lo |-> 0, hi |-> 30, band |-> "Foundational"],
      [lo |-> 30, hi |-> 65, band |-> "Emerging"],
      [lo |-> 66, hi |-> 100, band |-> "Scaling"]>>

\* lines 496-501: the legend shown under the metric, which is all the script
\* has of the bands (it never selects one itself)
INTERPRETATION ==
    <<[lo |-> 0, hi |-> 30, band |-> "Foundational"],
      [lo |-> 31, hi |-> 65, band |-> "Emerging"],
      [lo |-> 66, hi |-> 100, band |-> "Scaling"]>>

\* the bands whose legend entry covers percentage p
Bands(p) ==
    {INTERPRETATION[i].band :
        i \in {j \in 1..Len(INTERPRETATION) : INTERPRETATION[j].lo <= p /\ p <= INTERPRETATION[j].hi}}

\* the payload built from the default ratings instead of the slider values
Payload_Defaults(values) == [maturity |-> DEFAULT_MATURITY]

\* line 509: payload = {"maturity": values}
Payload(values) == [maturity |-> values]

\* decimal digits, by value
Digits == <<"0", "1", "2", "3", "4", "5", "6", "7", "8", "9">>

\* json.dumps of an int below 10
IntToText(v) == Item(Digits, v)

\* json.loads of a one-digit number
TextToInt(t) == ListIndex(Digits, t)

RECURSIVE DumpItems(_, _)
\* json.dumps of the first n items of the inner dict, in insertion order:
\* key, colon, value, and a comma between items
DumpItems(values, n) ==
    IF n = 0 THEN <<>>
    ELSE DumpItems(values, n - 1) \o (IF n > 1 THEN <<",">> ELSE <<>>)
            \o <<keys[n], ":", IntToText(values[keys[n]])>>

\* line 510: json.dumps(payload, indent=2), as the sequence of its tokens
\* (indent= only adds white space between them)
JsonDumps(payload) ==
    <<"{", "maturity", ":", "{">> \o DumpItems(payload.maturity, Len(keys)) \o <<"}", "}">>

\* json.loads of such a text: { name : { key : number , ... } }
JsonLoads(text) ==
    LET n == (Len(text) - 5) \div 4
        inner == [k \in {text[1 + 4 * i] : i \in 1..n} |->
                    TextToInt(text[3 + 4 * (CHOOSE i \in 1..n : text[1 + 4 * i] = k)])]
    IN  (text[2] :> inner)

NoText == <<>>

\* what requests.get(url, timeout=5) can do
Responses == {"raises", "status 404", "status 200, not JSON", "status 200, JSON"}

\* load_lottie_url without the except clause: the exception of the request
\* or of r.json() leaves the function
load_lottie_url_NoExcept(has_lottie, response) ==
    IF ~has_lottie THEN "None"
    ELSE IF response = "raises" THEN "ConnectionError"
    ELSE IF response = "status 200, JSON" THEN "animation"
    ELSE IF response = "status 200, not JSON" THEN "JSONDecodeError"
    ELSE "None"

\* lines 207-217; has_lottie is _HAS_LOTTIE (lines 19-23).  The value is
\* "None", "animation" for the decoded body, or the name of the exception
\* that leaves the function.  requests is a dependency of Streamlit, so the
\* import of line 210 succeeds.
load_lottie_url(has_lottie, response) ==
    IF ~has_lottie THEN "None"                                       \* lines 208-209
    ELSE IF response = "raises" THEN "None"                          \* lines 212, 215-216
    ELSE IF response = "status 200, JSON" THEN "animation"           \* lines 213-214
    ELSE IF response = "status 200, not JSON" THEN "None"            \* r.json() raises: 215-216
    ELSE "None"                                                      \* line 217

NotCalled == [has_lottie |-> FALSE, response |-> "", result |-> "not called"]

NoEvent == "none"

NoOp == [op |-> "none", from |-> -1]

\* line 317 with the slide show restarted when another page is selected
StorePage_RestartsSlides(ss, nav) ==
    [ss EXCEPT !["_page"] = nav, !["_slide"] = IF nav # ss["_page"] THEN 0 ELSE @]

\* line 317: st.session_state._page = nav
StorePage(ss, nav) == [ss EXCEPT !["_page"] = nav]

\* One execution of the script.  b is the state the execution starts from,
\* ev the button that reports True in it ("reset", "prev", "next",
\* "download" or none).
Pass(b, ev) ==
    LET ss0 == InitBlock(b.ss)
        r == Radio(ss0["_page"], b.rid, b.rval)
        ss1 == StorePage(ss0, r.nav)
        page == ss1["_page"]
        idx == ss1["_slide"]
        base == [ss |-> ss1, rid |-> r.id, rval |-> r.nav, sliders |-> b.sliders,
                 total |-> -1, pct |-> -1, error |-> "none", download |-> NoText,
                 op |-> NoOp, rerun |-> FALSE]
    IN  IF ev = "reset"                                              \* lines 322-325
        THEN [base EXCEPT !.ss = reset_slide(ss1), !.rerun = TRUE,
                          !.op = [op |-> "reset", from |-> idx]]
        ELSE IF page = "Projects Case Studies"                       \* line 387: der is not defined
        THEN [base EXCEPT !.error = "NameError"]
        ELSE IF page = "Maturity Diagnostic"                         \* lines 473-510
        THEN LET t == SumValues(b.sliders, Len(keys))
             IN  [base EXCEPT !.total = t, !.pct = Percentage(t, Len(keys)),
                               !.download = IF ev = "download"                \* lines 509-510
                                            THEN JsonDumps(Payload(b.sliders)) ELSE NoText]
        ELSE IF page = "Showcase Mode"                               \* lines 517-571
        THEN IF ~(idx >= -Len(slides) /\ idx <= Len(slides) - 1)     \* line 555: slides[idx]
             THEN [base EXCEPT !.error = "IndexError"]
             ELSE IF ev = "prev"
             THEN [base EXCEPT !.ss = [ss1 EXCEPT !["_slide"] = retreat_slide(idx)], !.rerun = TRUE,
                               !.op = [op |-> "retreat", from |-> idx]]
             ELSE IF ev = "next"
             THEN [base EXCEPT !.ss = [ss1 EXCEPT !["_slide"] = advance_slide(idx)], !.rerun = TRUE,
                               !.op = [op |-> "advance", from |-> idx]]
             ELSE [base EXCEPT !.sliders = DEFAULT_MATURITY]
        ELSE [base EXCEPT !.sliders = DEFAULT_MATURITY]              \* sliders not rendered: values dropped

\* An execution and, after st.rerun(), the execution that follows it.
\* drop: whether the interrupted execution discards the values of the
\* widgets it did not reach (this differs between Streamlit releases).
Run(b, ev, drop) ==
    LET p == Pass(b, ev)
    IN  IF p.rerun
        THEN [Pass([p EXCEPT !.sliders = IF drop THEN DEFAULT_MATURITY ELSE p.sliders], NoEvent)
                 EXCEPT !.op = p.op]
        ELSE p

Backend == [ss |-> session_state, rid |-> radio_id, rval |-> radio_val, sliders |-> sliders]

\* line 563: disabled=(idx == 0)
prev_disabled(idx) == idx = 0

\* line 567 with len(slides) for len(slides)-1
next_disabled_AtLen(idx) == idx = Len(slides)

\* line 567: disabled=(idx == len(slides)-1)
next_disabled(idx) == idx = Len(slides) - 1

\* what the browser shows once it has received the output of the last
\* execution; the two buttons exist on the Showcase Mode page only
View(ss, rid, rval, err) ==
    LET showcase == err = "none" /\ ss["_page"] = "Showcase Mode"
    IN  [radio |-> rid, nav |-> rval,
         page |-> IF err = "none" THEN ss["_page"] ELSE "error",
         idx |-> IF showcase THEN ss["_slide"] ELSE -1,
         prev_off |-> IF showcase THEN prev_disabled(ss["_slide"]) ELSE FALSE,
         next_off |-> IF showcase THEN next_disabled(ss["_slide"]) ELSE FALSE]

NoScreen == [radio |-> -1, nav |-> "", page |-> "", idx |-> -1,
             prev_off |-> FALSE, next_off |-> FALSE]

\* the state an execution leaves behind
Commit(result) ==
    \E p \in {result} :
        /\ session_state' = p.ss
        /\ radio_id' = p.rid
        /\ radio_val' = p.rval
        /\ sliders' = p.sliders
        /\ total' = p.total
        /\ pct' = p.pct
        /\ error' = p.error
        /\ download' = p.download
        /\ last_op' = p.op
        /\ other' = other
        /\ lottie' = lottie

-----------------------------------------------------------------------------
(* User interactions.  Each one changes a widget value in the browser and   *)
(* makes Streamlit execute the script.                                      *)

\* the app menu's Rerun (also the first execution of a new session)
Rerun ==
    /\ Commit(Run(Backend, NoEvent, FALSE))
    /\ UNCHANGED screen

\* the browser receives the output of the last execution
Render ==
    /\ radio_id >= 0          \* the script has been executed
    /\ screen # View(session_state, radio_id, radio_val, error)
    /\ screen' = View(session_state, radio_id, radio_val, error)
    /\ UNCHANGED <<session_state, radio_id, radio_val, sliders, total, pct, error, download, last_op,
                   other, lottie>>

\* the user clicks option p of the "Navigate" radio that is on screen
SelectPage(p) ==
    /\ screen # NoScreen
    /\ p # screen.nav
    /\ Commit(Run([Backend EXCEPT !.rid = screen.radio, !.rval = p], NoEvent, FALSE))
    /\ UNCHANGED screen

\* the user ticks or unticks "Enable Showcase Mode" (key="_showcase")
ToggleShowcase ==
    /\ screen # NoScreen
    /\ Commit(Run([Backend EXCEPT !.ss["_showcase"] = ~session_state["_showcase"]],
                  NoEvent, FALSE))
    /\ UNCHANGED screen

\* the user presses "Reset State"
PressReset(drop) ==
    /\ screen # NoScreen
    /\ Commit(Run(Backend, "reset", drop))
    /\ UNCHANGED screen

\* the user presses "Prev", which is on screen and not disabled
PressPrev(drop) ==
    /\ screen.page = "Showcase Mode"
    /\ ~screen.prev_off
    /\ Commit(Run(Backend, "prev", drop))
    /\ UNCHANGED screen

\* the user presses "Next", which is on screen and not disabled
PressNext(drop) ==
    /\ screen.page = "Showcase Mode"
    /\ ~screen.next_off
    /\ Commit(Run(Backend, "next", drop))
    /\ UNCHANGED screen

\* the user drags the slider of axis k to v
MoveSlider(k, v) ==
    /\ screen.page = "Maturity Diagnostic"
    /\ v # sliders[k]
    /\ Commit(Run([Backend EXCEPT !.sliders[k] = v], NoEvent, FALSE))
    /\ UNCHANGED screen

\* the user presses "Download JSON" on the page the last execution rendered;
\* the browser saves the button's data= and the script is executed again
PressDownload ==
    /\ screen.page = "Maturity Diagnostic"
    /\ screen = View(session_state, radio_id, radio_val, error)
    /\ Commit(Run(Backend, "download", FALSE))
    /\ UNCHANGED screen

ChangedAxes(values) == {k \in KeySet : values[k] # DEFAULT_MATURITY[k]}

MoveSliderNearDefault(k, v) ==
    /\ Cardinality(ChangedAxes([sliders EXCEPT ![k] = v])) <= MaxChangedAxes
    /\ MoveSlider(k, v)

-----------------------------------------------------------------------------
(* Specifications *)

NewSession == [ss |-> EmptySession, rid |-> -1, rval |-> "", sliders |-> DEFAULT_MATURITY]

\* the second session, after the first execution of the script
OtherSession ==
    LET p == Run(NewSession, NoEvent, FALSE)
    IN  [ss |-> p.ss, rid |-> p.rid, rval |-> p.rval, sliders |-> p.sliders]

\* a new session, after the first execution of the script has been displayed
Init ==
    \E p \in {Run(NewSession, NoEvent, FALSE)} :
        /\ session_state = p.ss
        /\ radio_id = p.rid
        /\ radio_val = p.rval
        /\ sliders = p.sliders
        /\ total = p.total
        /\ pct = p.pct
        /\ error = p.error
        /\ download = p.download
        /\ last_op = p.op
        /\ other = OtherSession
        /\ lottie = NotCalled
        /\ screen = View(p.ss, p.rid, p.rval, p.error)

Next ==
    \/ Rerun
    \/ Render
    \/ \E p \in PageSet : SelectPage(p)
    \/ ToggleShowcase
    \/ \E drop \in BOOLEAN : PressReset(drop)
    \/ \E drop \in BOOLEAN : PressPrev(drop)
    \/ \E drop \in BOOLEAN : PressNext(drop)
    \/ \E k \in KeySet, v \in SliderMin..SliderMax : MoveSliderNearDefault(k, v)
    \/ PressDownload

Spec == Init /\ [][Next]_vars

\* The Maturity Diagnostic page with the sliders in any position
InitScore ==
    \E values \in [KeySet -> SliderMin..SliderMax] :
        \E p \in {Run([ss |-> [InitBlock(EmptySession) EXCEPT !["_page"] = "Maturity Diagnostic"],
                      rid |-> RadioIndex("Maturity Diagnostic"),
                      rval |-> "Maturity Diagnostic",
                      sliders |-> values], NoEvent, FALSE)} :
            /\ session_state = p.ss
            /\ radio_id = p.rid
            /\ radio_val = p.rval
            /\ sliders = p.sliders
            /\ total = p.total
            /\ pct = p.pct
            /\ error = p.error
            /\ download = p.download
            /\ last_op = p.op
            /\ other = OtherSession
            /\ lottie = NotCalled
            /\ screen = View(p.ss, p.rid, p.rval, p.error)

\* the user drags the slider of axis k one step up
RaiseSlider(k) ==
    /\ sliders[k] < SliderMax
    /\ MoveSlider(k, sliders[k] + 1)

NextScore == \E k \in KeySet : RaiseSlider(k)

SpecScore == InitScore /\ [][NextScore]_vars

-----------------------------------------------------------------------------
(* Two sessions of the same server process *)

\* a store shared by the whole process: every session resolves to the first
StoreKey_Global(sid) == 1

\* st.session_state and the widget values are those of the session whose
\* script is being executed
StoreKey(sid) == sid

Stores == <<Backend, other>>

\* An interaction of the second session: its script runs on the store that
\* st.session_state resolves to for it and leaves its result there.
\* click: the radio option the user clicked, "" for none.
OtherAct(ev, click) ==
    \E key \in {StoreKey(2)} :
    \E p \in {Run(IF click = "" THEN Stores[key]
                  ELSE [Stores[key] EXCEPT !.rid = other.rid, !.rval = click], ev, FALSE)} :
        IF key = 2
        THEN /\ other' = [ss |-> p.ss, rid |-> p.rid, rval |-> p.rval, sliders |-> p.sliders]
             /\ UNCHANGED <<session_state, radio_id, radio_val, sliders, total, pct, error,
                            download, last_op, screen, lottie>>
        ELSE /\ session_state' = p.ss
             /\ radio_id' = p.rid
             /\ radio_val' = p.rval
             /\ sliders' = p.sliders
             /\ UNCHANGED <<total, pct, error, download, last_op, screen, other, lottie>>

\* the second user clicks option p of the radio
OtherSelectPage(p) ==
    /\ p # other.rval
    /\ OtherAct(NoEvent, p)

\* the second user presses "Reset State"
OtherPressReset == OtherAct("reset", "")

\* the second user presses "Prev", which is not disabled
OtherPressPrev ==
    /\ other.ss["_page"] = "Showcase Mode"
    /\ ~prev_disabled(other.ss["_slide"])
    /\ OtherAct("prev", "")

\* the second user presses "Next", which is not disabled
OtherPressNext ==
    /\ other.ss["_page"] = "Showcase Mode"
    /\ ~next_disabled(other.ss["_slide"])
    /\ OtherAct("next", "")

\* the options the second user clicks
OtherPages ==
    {PAGES[i] : i \in Max(1, ListIndex(PAGES, "Showcase Mode") + 2 - MaxOtherPages)
                        ..(ListIndex(PAGES, "Showcase Mode") + 1)}

OtherNext ==
    \/ \E p \in OtherPages : OtherSelectPage(p)
    \/ OtherPressReset
    \/ OtherPressPrev
    \/ OtherPressNext

\* the first session's page selections and slide operations
NavigatorNext ==
    \/ Render
    \/ \E p \in PageSet : SelectPage(p)
    \/ \E drop \in BOOLEAN : PressReset(drop)
    \/ \E drop \in BOOLEAN : PressPrev(drop)
    \/ \E drop \in BOOLEAN : PressNext(drop)

\* a call of load_lottie_url in the environment given; the function reads
\* and writes nothing of st.session_state or of the widgets
CallLoadLottie(has_lottie, response) ==
    /\ lottie' = [has_lottie |-> has_lottie, response |-> response,
                  result |-> load_lottie_url(has_lottie, response)]
    /\ UNCHANGED <<session_state, radio_id, radio_val, sliders, total, pct, error, download,
                   last_op, screen, other>>

NextLottie ==
    \/ NavigatorNext
    \/ \E v \in SliderMin..SliderMax : MoveSlider(keys[1], v)
    \/ \E has_lottie \in BOOLEAN, response \in Responses : CallLoadLottie(has_lottie, response)

\* the navigator with load_lottie_url applied in every environment, at any
\* time (the script's only call, line 443, is behind the NameError of line 387)
SpecLottie == Init /\ [][NextLottie]_vars

NextTwo == NavigatorNext \/ OtherNext

\* two sessions interleaving their interactions in any order
SpecTwo == Init /\ [][NextTwo]_vars

\* A session whose store already holds a page value the radio does not offer,
\* before the first execution of the script
InitNav ==
    /\ \E u \in UnknownPages : session_state = ("_page" :> u)
    /\ radio_id = NewSession.rid
    /\ radio_val = NewSession.rval
    /\ sliders = NewSession.sliders
    /\ total = -1
    /\ pct = -1
    /\ error = "none"
    /\ download = NoText
    /\ last_op = NoOp
    /\ screen = NoScreen
    /\ other = OtherSession
    /\ lottie = NotCalled

SpecNav == InitNav /\ [][Next]_vars

-----------------------------------------------------------------------------
(* Navigator *)

\* C1: the slide index starts at 0, is an integer in [0, N-1] in every
\* reachable state, so that slides[_slide] is a valid lookup, and an
\* execution of the script without a button press leaves it as it was.
C1_SlideIndexInRange ==
    /\ session_state["_slide"] = 0
    /\ [](session_state["_slide"] \in 0..(Len(slides) - 1))
    /\ [][Rerun => session_state'["_slide"] = session_state["_slide"]]_vars

\* the last slide is still the stored one after leaving Showcase Mode
C1_Witness ==
    /\ session_state["_slide"] = Len(slides) - 1
    /\ session_state["_page"] = "Overview"
    /\ last_op = NoOp

\* C2: advance from i leaves i+1, and N-1 when i is N-1; retreat from i
\* leaves i-1, and 0 when i is 0: the counter saturates and never wraps.
C2_SaturatingCounter ==
    /\ last_op.op = "advance" =>
          /\ last_op.from \in 0..(Len(slides) - 1)
          /\ session_state["_slide"] =
                IF last_op.from = Len(slides) - 1 THEN Len(slides) - 1 ELSE last_op.from + 1
    /\ last_op.op = "retreat" =>
          /\ last_op.from \in 0..(Len(slides) - 1)
          /\ session_state["_slide"] = IF last_op.from = 0 THEN 0 ELSE last_op.from - 1

\* Next was executed with the index already at N-1 and left it there
C2_Witness ==
    /\ last_op = [op |-> "advance", from |-> Len(slides) - 1]
    /\ session_state["_slide"] = Len(slides) - 1

\* C3: Reset State, from any slide index and on any page, leaves the slide
\* index 0.
C3_ResetYieldsZero ==
    last_op.op = "reset" => session_state["_slide"] = 0

\* Reset State was pressed at the last slide while another page was selected
C3_Witness ==
    /\ last_op = [op |-> "reset", from |-> Len(slides) - 1]
    /\ session_state["_page"] = "Maturity Diagnostic"
    /\ session_state["_slide"] = 0

\* C4: the stored page is Overview at session start and one of the eight
\* options of the radio in every reachable state.
C4_PageEnumerated ==
    /\ session_state["_page"] = "Overview"
    /\ [](session_state["_page"] \in
            {"Overview", "Core Pillars", "Key Activities", "Maturity Diagnostic",
             "Ecosystem Map", "Showcase Mode", "Project List", "Projects Case Studies"})

\* the last option has been selected and displayed
C4_Witness ==
    /\ session_state["_page"] = "Projects Case Studies"
    /\ screen.nav = "Projects Case Studies"

\* C5: an execution that finds a stored page outside the options stores
\* Overview, the first option, and raises no error.
C5_UnknownPageFallsBack ==
    [][session_state["_page"] \notin PageSet =>
          /\ session_state'["_page"] = "Overview"
          /\ error' = "none"]_vars

\* the first execution of a session seeded with an unknown page has run
C5_Witness ==
    /\ screen = NoScreen
    /\ radio_id = 0
    /\ session_state["_page"] = "Overview"
    /\ error = "none"

\* C6: every execution of the script reaches the footer without an error.
C6_NoOperationFatal == error = "none"

-----------------------------------------------------------------------------
(* Maturity Scorer *)

\* C7: total is the sum of the 8 ratings and the percentage is total/40*100
\* rounded to an integer (at most one half away from it); all axes 2 give
\* 16 and 40%, all axes 0 give 0 and 0%, all axes 5 give 40 and 100%.
C7_TotalAndPercentage ==
    /\ total = sliders["Strategy"] + sliders["Governance"] + sliders["Innovation"]
               + sliders["Architecture"] + sliders["Validation"] + sliders["Delivery"]
               + sliders["Enablement"] + sliders["Ecosystem"]
    /\ 2 * (40 * pct - 100 * total) <= 40
    /\ 2 * (100 * total - 40 * pct) <= 40
    /\ (\A k \in KeySet : sliders[k] = 2) => (total = 16 /\ pct = 40)
    /\ (\A k \in KeySet : sliders[k] = 0) => (total = 0 /\ pct = 0)
    /\ (\A k \in KeySet : sliders[k] = 5) => (total = 40 /\ pct = 100)

\* the page has been computed with every axis at 2
C7_Witness ==
    /\ \A k \in KeySet : sliders[k] = 2
    /\ total = 16
    /\ pct = 40

\* C8: the percentage is an integer from 0 to 100.
C8_PercentageInRange == pct \in 0..100

\* the page has been computed with every axis at 5
C8_Witness ==
    /\ \A k \in KeySet : sliders[k] = 5
    /\ pct = 100

\* C9: raising one axis that is below 5 by 1 never lowers the percentage.
C9_Monotonic ==
    [][(\E k \in KeySet :
            sliders[k] < 5 /\ sliders' = [sliders EXCEPT ![k] = sliders[k] + 1])
        => pct' >= pct]_vars

\* total 23, where the double falls below 57.5, reached with an axis still
\* below 5
C9_Witness ==
    /\ total = 23
    /\ pct = 57
    /\ sliders["Ecosystem"] < 5

-----------------------------------------------------------------------------
(* Export *)

\* C11: the exported text, parsed back, is a record with the single field
\* maturity, whose value has exactly the 8 axis names and equals the ratings
\* the text was produced from.
C11_ExportRoundTrip ==
    download # NoText =>
        /\ DOMAIN JsonLoads(download) = {"maturity"}
        /\ DOMAIN JsonLoads(download)["maturity"] =
              {"Strategy", "Governance", "Innovation", "Architecture",
               "Validation", "Delivery", "Enablement", "Ecosystem"}
        /\ JsonLoads(download)["maturity"] = sliders

\* a snapshot has been produced with an axis moved to 5
C11_Witness ==
    /\ download # NoText
    /\ sliders["Governance"] = 5
    /\ JsonLoads(download)["maturity"]["Governance"] = 5

-----------------------------------------------------------------------------
(* Sessions *)

\* C12: a page selection, advance, retreat or reset of one session never
\* changes the page selection or the slide index of the other session.
C12_SessionIsolation ==
    [][/\ OtherNext =>
            /\ session_state'["_page"] = session_state["_page"]
            /\ session_state'["_slide"] = session_state["_slide"]
       /\ NavigatorNext =>
            /\ other'.ss["_page"] = other.ss["_page"]
            /\ other'.ss["_slide"] = other.ss["_slide"]]_vars

\* both sessions are in Showcase Mode, at different slides
C12_Witness ==
    /\ session_state["_page"] = "Showcase Mode"
    /\ other.ss["_page"] = "Showcase Mode"
    /\ session_state["_slide"] = Len(slides) - 1
    /\ other.ss["_slide"] = 1

-----------------------------------------------------------------------------
(* Ratings *)

\* C13: the ratings start at the documented defaults 3, 2, 3, 2, 2, 3, 2, 2
\* and always have exactly the 8 named axes, each an integer from 0 to 5.
C13_RatingsWellFormed ==
    /\ sliders = [Strategy |-> 3, Governance |-> 2, Innovation |-> 3, Architecture |-> 2,
                  Validation |-> 2, Delivery |-> 3, Enablement |-> 2, Ecosystem |-> 2]
    /\ [](/\ DOMAIN sliders = {"Strategy", "Governance", "Innovation", "Architecture",
                               "Validation", "Delivery", "Enablement", "Ecosystem"}
          /\ \A k \in DOMAIN sliders : sliders[k] \in 0..5)

\* the page has been computed with an axis dragged to the lowest rating
C13_Witness ==
    /\ session_state["_page"] = "Maturity Diagnostic"
    /\ total # -1
    /\ sliders["Strategy"] = 0

\* C14: the ratings change only when the user moves a slider; a page
\* selection, Prev, Next and Reset State leave every rating as it was.
C14_RatingsOnlyByUserInput ==
    [][sliders' # sliders =>
          \E k \in KeySet, v \in SliderMin..SliderMax :
              /\ sliders' = [sliders EXCEPT ![k] = v]
              /\ MoveSlider(k, v)]_vars

\* C15: the stored page changes only in a step that is a click on the
\* radio; Prev, Next, Reset State, the Showcase checkbox and the sliders
\* leave it as it was.
C15_PageOnlyBySelect ==
    [][session_state'["_page"] # session_state["_page"] =>
          \E p \in PageSet : SelectPage(p)]_vars

\* the checkbox has been ticked and a slider moved on a page other than the
\* first
C15_Witness ==
    /\ session_state["_showcase"] = TRUE
    /\ session_state["_page"] = "Maturity Diagnostic"
    /\ sliders # DEFAULT_MATURITY
    /\ last_op = NoOp

-----------------------------------------------------------------------------
(* Prev and Next *)

\* the buttons of the Showcase Mode page that is on screen: Prev is disabled
\* exactly on the first slide, Next exactly on the last, never both
EndpointsDisabled ==
    screen.page = "Showcase Mode" =>
        /\ screen.prev_off <=> (screen.idx = 0)
        /\ screen.next_off <=> (screen.idx = Len(slides) - 1)
        /\ ~(screen.prev_off /\ screen.next_off)

\* C16 as stated: Prev is disabled exactly on the first slide, Next exactly
\* on the last, never both, and every press of an enabled Prev or Next has
\* changed the slide index by exactly 1.
C16_EnabledAlwaysMoves ==
    /\ EndpointsDisabled
    /\ last_op.op \in {"advance", "retreat"} =>
           session_state["_slide"] - last_op.from \in {1, -1}

\* C16: Prev is disabled exactly on the first slide, Next exactly on the
\* last, never both, and a press of an enabled Prev or Next on a screen that
\* shows the current state changes the slide index by exactly 1.
C16_EndpointDetection ==
    /\ []EndpointsDisabled
    /\ [][(/\ screen = View(session_state, radio_id, radio_val, error)
           /\ \E drop \in BOOLEAN : PressPrev(drop) \/ PressNext(drop))
          => session_state'["_slide"] - session_state["_slide"] \in {1, -1}]_vars

\* Next has been pressed on the screen that showed the slide before the last
C16_Witness ==
    /\ screen.page = "Showcase Mode"
    /\ screen.idx = Len(slides) - 2
    /\ ~screen.next_off
    /\ last_op = [op |-> "advance", from |-> Len(slides) - 2]
    /\ session_state["_slide"] = Len(slides) - 1

-----------------------------------------------------------------------------
(* load_lottie_url *)

\* C17: load_lottie_url returns None, without raising, when streamlit_lottie
\* is absent, when the request raises, when the status is not 200 and when
\* the body is not JSON; it raises in no environment, and no call changes the
\* page, the slide index or the ratings.
C17_LottieFailsSilently ==
    /\ [](lottie # NotCalled =>
            /\ (\/ ~lottie.has_lottie
                \/ lottie.response \in {"raises", "status 404", "status 200, not JSON"})
               => lottie.result = "None"
            /\ lottie.result \in {"None", "animation"})
    /\ [][lottie' # lottie =>
            /\ session_state'["_page"] = session_state["_page"]
            /\ session_state'["_slide"] = session_state["_slide"]
            /\ sliders' = sliders]_vars

\* the request raised while the third slide was stored and a rating changed
C17_Witness ==
    /\ lottie.has_lottie
    /\ lottie.response = "raises"
    /\ lottie.result = "None"
    /\ session_state["_page"] = "Maturity Diagnostic"
    /\ session_state["_slide"] = 2
    /\ sliders[keys[1]] = 5

-----------------------------------------------------------------------------
(* Frame of the slide index *)

\* C18: the slide index changes only in a step that is a press of Prev or
\* Next executed with Showcase Mode as the stored page, or a press of Reset
\* State; a step that changes it is never a page selection.
C18_SlideOnlyBySlideOps ==
    [][session_state'["_slide"] # session_state["_slide"] =>
          /\ \/ /\ last_op'.op \in {"advance", "retreat"}
                /\ session_state["_page"] = "Showcase Mode"
                /\ session_state'["_page"] = "Showcase Mode"
                /\ \E drop \in BOOLEAN : PressPrev(drop) \/ PressNext(drop)
             \/ /\ last_op'.op = "reset"
                /\ \E drop \in BOOLEAN : PressReset(drop)
          /\ ~ \E p \in PageSet : SelectPage(p)]_vars

\* the user left Showcase Mode on the third slide for Overview and has just
\* selected Showcase Mode again: the third slide is still the stored one
C18_Witness ==
    /\ screen.page = "Overview"
    /\ session_state["_page"] = "Showcase Mode"
    /\ session_state["_slide"] = 2
    /\ last_op = NoOp
    /\ error = "none"

====
